---- MODULE Spec2Model ----
(***************************************************************************)
(* Commission calculator: CommissionCalculatorService and the values it    *)
(* computes with.  The service mixes two numeric types, Python float       *)
(* (IEEE-754 binary64) and decimal.Decimal (28 significant digits,         *)
(* ROUND_HALF_EVEN context); every conversion between them is modelled by  *)
(* what it does.  Unbounded naturals are little-endian sequences of limbs  *)
(* in base LimbBase, because a binary64 significand (53 bits) and a        *)
(* Decimal coefficient (28 digits) do not fit a machine integer.           *)
(***************************************************************************)
EXTENDS Integers, Sequences, FiniteSets, TLC

(***************************************************************************)
(* Unbounded naturals (Python int / the coefficient of a Decimal).         *)
(***************************************************************************)
LimbBase == 10000
LimbDigits == 4

RECURSIVE BNorm(_)
BNorm(a) == IF a = <<>> THEN <<>>
            ELSE IF a[Len(a)] = 0 THEN BNorm(SubSeq(a, 1, Len(a) - 1))
            ELSE a

RECURSIVE BFromInt(_)
BFromInt(n) == IF n = 0 THEN <<>>
               ELSE <<n % LimbBase>> \o BFromInt(n \div LimbBase)

BZero == <<>>
BOne == <<1>>

BIsZero(a) == a = <<>>

BIsEven(a) == a = <<>> \/ a[1] % 2 = 0

RECURSIVE BCmpFrom(_, _, _)
BCmpFrom(a, b, i) ==
    IF i = 0 THEN 0
    ELSE IF a[i] < b[i] THEN -1
    ELSE IF a[i] > b[i] THEN 1
    ELSE BCmpFrom(a, b, i - 1)

\* -1, 0 or 1 as a < b, a = b, a > b.
BCmp(a, b) ==
    IF Len(a) < Len(b) THEN -1
    ELSE IF Len(a) > Len(b) THEN 1
    ELSE BCmpFrom(a, b, Len(a))

BLimb(a, i) == IF i <= Len(a) THEN a[i] ELSE 0

RECURSIVE BAddFrom(_, _, _, _)
BAddFrom(a, b, i, carry) ==
    IF i > Len(a) /\ i > Len(b)
    THEN (IF carry = 0 THEN <<>> ELSE <<carry>>)
    ELSE LET s == BLimb(a, i) + BLimb(b, i) + carry
         IN  <<s % LimbBase>> \o BAddFrom(a, b, i + 1, s \div LimbBase)

BAdd(a, b) == BAddFrom(a, b, 1, 0)

RECURSIVE BSubFrom(_, _, _, _)
BSubFrom(a, b, i, borrow) ==
    IF i > Len(a) THEN <<>>
    ELSE LET s == a[i] - BLimb(b, i) - borrow
         IN  IF s < 0 THEN <<s + LimbBase>> \o BSubFrom(a, b, i + 1, 1)
             ELSE <<s>> \o BSubFrom(a, b, i + 1, 0)

\* a - b for a >= b.
BSub(a, b) == BNorm(BSubFrom(a, b, 1, 0))

RECURSIVE BMulSmallFrom(_, _, _, _)
BMulSmallFrom(a, k, i, carry) ==
    IF i > Len(a)
    THEN (IF carry = 0 THEN <<>> ELSE <<carry>>)
    ELSE LET s == a[i] * k + carry
         IN  <<s % LimbBase>> \o BMulSmallFrom(a, k, i + 1, s \div LimbBase)

\* a * k for 0 <= k < LimbBase.
BMulSmall(a, k) == IF k = 0 THEN <<>> ELSE BMulSmallFrom(a, k, 1, 0)

\* a * LimbBase^n.
BShiftLimbs(a, n) == IF a = <<>> THEN <<>> ELSE [i \in 1..n |-> 0] \o a

RECURSIVE BMulFrom(_, _, _)
BMulFrom(a, b, i) ==
    IF i > Len(b) THEN <<>>
    ELSE BAdd(BShiftLimbs(BMulSmall(a, b[i]), i - 1), BMulFrom(a, b, i + 1))

BMul(a, b) == IF Len(a) >= Len(b) THEN BMulFrom(a, b, 1) ELSE BMulFrom(b, a, 1)

\* Quotient and remainder of limbs i..Len(a) of a by k, most significant
\* limb first.
RECURSIVE BDivSmallFrom(_, _, _)
BDivSmallFrom(a, k, i) ==
    IF i > Len(a) THEN [q |-> <<>>, r |-> 0]
    ELSE LET prev == BDivSmallFrom(a, k, i + 1)
             cur == prev.r * LimbBase + a[i]
         IN  [q |-> <<cur \div k>> \o prev.q, r |-> cur % k]

\* Quotient and remainder of a by k, 0 < k <= LimbBase.
BDivSmall(a, k) ==
    LET d == BDivSmallFrom(a, k, 1)
    IN  [q |-> BNorm(d.q), r |-> d.r]

\* The quotient limb of cur by b, for cur < b * LimbBase and b's leading limb
\* at least LimbBase / 2: the estimate from the leading limbs is at most 2 too
\* large (Knuth, TAOCP 4.3.1, Theorem B).
BQuotDigit(cur, b) ==
    LET n == Len(b)
        top == BLimb(cur, n + 1) * LimbBase + BLimb(cur, n)
        est == top \div b[n]
        hat == IF est > LimbBase - 1 THEN LimbBase - 1 ELSE est
    IN  CHOOSE q \in {hat, hat - 1, hat - 2} :
            /\ q >= 0
            /\ BCmp(BMulSmall(b, q), cur) <= 0
            /\ BCmp(BMulSmall(b, q + 1), cur) > 0

\* Long division of limbs i..Len(a) of a by b, most significant limb first.
RECURSIVE BDivModFrom(_, _, _)
BDivModFrom(a, b, i) ==
    IF i > Len(a) THEN [q |-> <<>>, r |-> <<>>]
    ELSE LET prev == BDivModFrom(a, b, i + 1)
             cur == BNorm(<<a[i]>> \o prev.r)
             qd == BQuotDigit(cur, b)
         IN  IF prev.r = <<>> /\ a[i] = 0
             THEN [q |-> <<0>> \o prev.q, r |-> <<>>]
             ELSE [q |-> <<qd>> \o prev.q, r |-> BSub(cur, BMulSmall(b, qd))]

\* Floor quotient and remainder of a by b, b > 0.  Both are first scaled by
\* f so that b's leading limb is at least LimbBase / 2.
BUnscale(d, f) == [q |-> BNorm(d.q), r |-> BDivSmall(d.r, f).q]

BDivModBy(a, b, f) == BUnscale(BDivModFrom(BMulSmall(a, f), BMulSmall(b, f), 1), f)

BDivMod(a, b) == BDivModBy(a, b, LimbBase \div (b[Len(b)] + 1))

RECURSIVE SmallPow(_, _)
SmallPow(b, n) == IF n = 0 THEN 1 ELSE b * SmallPow(b, n - 1)

RECURSIVE SmallDigits(_)
SmallDigits(n) == IF n < 10 THEN 1 ELSE 1 + SmallDigits(n \div 10)

\* Number of decimal digits of a (0 has none).
BDigits(a) ==
    IF a = <<>> THEN 0
    ELSE LimbDigits * (Len(a) - 1) + SmallDigits(a[Len(a)])

\* 10^n.
BPow10(n) == BShiftLimbs(<<SmallPow(10, n % LimbDigits)>>, n \div LimbDigits)

\* a * 10^n.
BMulPow10(a, n) ==
    BShiftLimbs(BMulSmall(a, SmallPow(10, n % LimbDigits)), n \div LimbDigits)

RECURSIVE BPowSmall(_, _)
BPowSmall(b, n) == IF n = 0 THEN BOne ELSE BMulSmall(BPowSmall(b, n - 1), b)

\* 2^n and 5^n, by whole limbs' worth of factors at a time.
BPow2(n) == BMulSmall(BPowSmall(8192, n \div 13), SmallPow(2, n % 13))
BPow5(n) == BMulSmall(BPowSmall(3125, n \div 5), SmallPow(5, n % 5))

\* A natural written as its base-LimbBase groups, most significant first:
\* BLit(<<9, 5999, 99>>) is 959990099.
BLit(groups) == BNorm([i \in 1 .. Len(groups) |-> groups[Len(groups) + 1 - i]])

\* Quotient and remainder of a by 10^n.
BSplitPow10(a, n) ==
    LET k == n \div LimbDigits
        hi == IF Len(a) > k THEN SubSeq(a, k + 1, Len(a)) ELSE <<>>
        lo == IF Len(a) > k THEN SubSeq(a, 1, k) ELSE a
        d == BDivSmall(hi, SmallPow(10, n % LimbDigits))
    IN  [q |-> d.q, r |-> BNorm(lo \o (IF Len(a) > k THEN <<d.r>> ELSE <<>>))]

\* Whether q + rem/den (0 <= rem < den) rounds up to q + 1 under a rounding
\* mode of the decimal module (ROUND_HALF_EVEN is also IEEE-754's default).
RoundsUp(q, rem, den, mode) ==
    LET c == BCmp(BMulSmall(rem, 2), den)
    IN  CASE mode = "ROUND_HALF_UP" -> c >= 0
          [] mode = "ROUND_HALF_EVEN" -> c > 0 \/ (c = 0 /\ ~BIsEven(q))
          [] mode = "ROUND_DOWN" -> FALSE

BRound(q, rem, den, mode) ==
    IF RoundsUp(q, rem, den, mode) THEN BAdd(q, BOne) ELSE q

\* The quotient q + r/den of a division, rounded half to even.
BRoundDivMod(dm, den) == BRound(dm.q, dm.r, den, "ROUND_HALF_EVEN")

(***************************************************************************)
(* decimal.Decimal: sign, coefficient, exponent; the value is              *)
(* (-1)^neg * c * 10^e.  Values are kept with trailing zeros stripped, so  *)
(* that two Decimals are equal as records exactly when they are equal as   *)
(* numbers (Python compares Decimals by value).                            *)
(***************************************************************************)
DecimalPrecision == 28

RECURSIVE DecStrip(_, _)
DecStrip(c, e) ==
    IF c = <<>> THEN [c |-> <<>>, e |-> 0]
    ELSE IF c[1] = 0 THEN DecStrip(Tail(c), e + LimbDigits)
    ELSE IF c[1] % 10 = 0 THEN DecStrip(BDivSmall(c, 10).q, e + 1)
    ELSE [c |-> c, e |-> e]

Dec(neg, c, e) ==
    LET s == DecStrip(c, e)
    IN  [neg |-> neg /\ s.c # <<>>, c |-> s.c, e |-> s.e]

DecZero == [neg |-> FALSE, c |-> <<>>, e |-> 0]

\* Decimal("100") at commission_service.py:155.
DecHundred == Dec(FALSE, <<100>>, 0)

DecIsZero(x) == x.c = <<>>

\* The context's rounding of an exact result c * 10^e to DecimalPrecision
\* significant digits (ROUND_HALF_EVEN).
DecContextRound(neg, c, e) ==
    IF BDigits(c) <= DecimalPrecision THEN Dec(neg, c, e)
    ELSE LET drop == BDigits(c) - DecimalPrecision
             sp == BSplitPow10(c, drop)
         IN  Dec(neg, BRound(sp.q, sp.r, BPow10(drop), "ROUND_HALF_EVEN"), e + drop)

\* Decimal.__mul__.
DecMul(a, b) == DecContextRound(a.neg # b.neg, BMul(a.c, b.c), a.e + b.e)

\* Decimal.__truediv__, b nonzero: the quotient correctly rounded to
\* DecimalPrecision digits.  The dividend is scaled so that the floor quotient
\* has DecimalPrecision + 1 or + 2 digits, and the surplus digits are rounded
\* away together with the division's remainder.
DecDiv(a, b) ==
    IF a.c = <<>> THEN DecZero
    ELSE LET want == DecimalPrecision + BDigits(b.c) - BDigits(a.c) + 1
             shift == IF want > 0 THEN want ELSE 0
             dm == BDivMod(BMulPow10(a.c, shift), b.c)
             drop == BDigits(dm.q) - DecimalPrecision
             sp == BSplitPow10(dm.q, drop)
         IN  Dec(a.neg # b.neg,
                 BRound(sp.q, BAdd(BMul(sp.r, b.c), dm.r),
                        BMulPow10(b.c, drop), "ROUND_HALF_EVEN"),
                 a.e - b.e - shift + drop)

\* The signal of an operation whose result the context cannot hold.
DecInvalid == [invalid |-> TRUE]

\* Decimal.quantize(Decimal("0.01"), rounding): the value at exponent exp, or
\* DecInvalid when its coefficient at that exponent would have more than
\* DecimalPrecision digits.
DecQuantize(x, exp, mode) ==
    IF x.c = <<>> THEN x
    ELSE IF x.e >= exp
    THEN IF BDigits(x.c) + (x.e - exp) > DecimalPrecision THEN DecInvalid ELSE x
    ELSE LET drop == exp - x.e
             sp == BSplitPow10(x.c, drop)
             q == BRound(sp.q, sp.r, BPow10(drop), mode)
         IN  IF BDigits(q) > DecimalPrecision THEN DecInvalid ELSE Dec(x.neg, q, exp)

DecMagCmp(a, b) ==
    LET e == IF a.e < b.e THEN a.e ELSE b.e
    IN  BCmp(BMulPow10(a.c, a.e - e), BMulPow10(b.c, b.e - e))

\* Decimal comparison, exact: -1, 0 or 1.
DecCmp(a, b) ==
    IF a.neg /\ ~b.neg THEN -1
    ELSE IF ~a.neg /\ b.neg THEN 1
    ELSE IF a.neg THEN DecMagCmp(b, a)
    ELSE DecMagCmp(a, b)

\* Number of digits after the decimal point.
DecFractionDigits(x) == IF x.e < 0 THEN -x.e ELSE 0

(***************************************************************************)
(* Python float: IEEE-754 binary64, round-to-nearest-even.  A nonzero      *)
(* float is (-1)^neg * m * 2^e with 2^52 <= m < 2^53; zero has m = 0.      *)
(* Subnormals, infinities and NaN lie outside the amounts modelled.        *)
(***************************************************************************)
MantissaBits == 53

Two52 == BPow2(MantissaBits - 1)
Two53 == BPow2(MantissaBits)

FloatZero == [neg |-> FALSE, m |-> <<>>, e |-> 0]

FloatIsZero(f) == f.m = <<>>

\* n / d scaled by a power of two into [2^52, 2^53): n / d = (n' / d') * 2^e.
RECURSIVE FScale(_, _, _)
RECURSIVE FScaleStep(_, _, _, _)
FScale(n, d, e) == FScaleStep(n, d, e, BMul(d, Two52))

\* One step of the scaling, d52 being d * 2^52.
FScaleStep(n, d, e, d52) ==
    IF BCmp(BMulSmall(n, 8192), BMulSmall(d52, 2)) < 0
        THEN FScale(BMulSmall(n, 8192), d, e - 13)
    ELSE IF BCmp(n, d52) < 0
        THEN FScale(BMulSmall(n, 2), d, e - 1)
    ELSE IF BCmp(n, BMulSmall(d52, 8192)) >= 0
        THEN FScale(n, BMulSmall(d, 8192), e + 13)
    ELSE IF BCmp(n, BMulSmall(d52, 2)) >= 0
        THEN FScale(n, BMulSmall(d, 2), e + 1)
    ELSE [n |-> n, d |-> d, e |-> e]

\* The double nearest to the positive rational n / d, ties to even.
NormalDouble(neg, m, e) ==
    IF m = Two53 THEN [neg |-> neg, m |-> Two52, e |-> e + 1]
    ELSE [neg |-> neg, m |-> m, e |-> e]

NearestScaled(neg, s) ==
    NormalDouble(neg, BRoundDivMod(BDivMod(s.n, s.d), s.d), s.e)

NearestDouble(neg, n, d) == NearestScaled(neg, FScale(n, d, 0))

\* float(Decimal) and the reading of a float literal: correctly rounded.
FloatFromDec(x) ==
    IF x.c = <<>> THEN FloatZero
    ELSE NearestDouble(x.neg,
                       IF x.e >= 0 THEN BMulPow10(x.c, x.e) ELSE x.c,
                       IF x.e >= 0 THEN BOne ELSE BPow10(-x.e))

\* float * float.
FloatMul(a, b) ==
    IF a.m = <<>> \/ b.m = <<>> THEN FloatZero
    ELSE LET e == a.e + b.e
         IN  NearestDouble(a.neg # b.neg,
                           BMul(BMul(a.m, b.m), IF e > 0 THEN BPow2(e) ELSE BOne),
                           IF e < 0 THEN BPow2(-e) ELSE BOne)

\* float comparison: -1, 0 or 1.
FloatMagCmp(a, b) ==
    IF a.m = <<>> \/ b.m = <<>> THEN BCmp(a.m, b.m)
    ELSE IF a.e < b.e THEN -1
    ELSE IF a.e > b.e THEN 1
    ELSE BCmp(a.m, b.m)

FloatCmp(a, b) ==
    IF a.neg /\ ~b.neg THEN -1
    ELSE IF ~a.neg /\ b.neg THEN 1
    ELSE IF a.neg THEN FloatMagCmp(b, a)
    ELSE FloatMagCmp(a, b)

\* str(float) / repr(float): the shortest decimal that reads back as the
\* same double, and among those of that length the one nearest to it.  The
\* double and the half-gaps to its two neighbours are first written as
\* integers V, V - lo, hi - V in units of 10^E.
RECURSIVE ReprSearch(_, _, _, _, _, _, _)
ReprSearch(neg, V, lo, hi, closed, E, n) ==
    IF n >= BDigits(V) THEN Dec(neg, V, E)
    ELSE LET drop == BDigits(V) - n
             sp == BSplitPow10(V, drop)
             unit == BPow10(drop)
             a == BMulPow10(sp.q, drop)
             b == BAdd(a, unit)
             inA == IF closed THEN BCmp(a, lo) >= 0 ELSE BCmp(a, lo) > 0
             inB == IF closed THEN BCmp(b, hi) <= 0 ELSE BCmp(b, hi) < 0
             bNearer == RoundsUp(sp.q, sp.r, unit, "ROUND_HALF_EVEN")
         IN  IF inA /\ (~inB \/ ~bNearer) THEN Dec(neg, sp.q, E + drop)
             ELSE IF inB THEN Dec(neg, BAdd(sp.q, BOne), E + drop)
             ELSE ReprSearch(neg, V, lo, hi, closed, E, n + 1)

FloatRepr(f) ==
    IF f.m = <<>> THEN DecZero
    ELSE LET S == IF f.e <= 2 THEN BPow5(2 - f.e) ELSE BPow2(f.e - 2)
             E == IF f.e <= 2 THEN f.e - 2 ELSE 0
             V == BMul(BMulSmall(f.m, 4), S)
             lo == BSub(V, IF f.m = Two52 THEN S ELSE BMulSmall(S, 2))
             hi == BAdd(V, BMulSmall(S, 2))
         IN  ReprSearch(f.neg, V, lo, hi, BIsEven(f.m), E, 1)

\* round(float, ndigits): the double's exact value correctly rounded
\* (half to even) to ndigits decimals, read back as a double.
FloatRound(f, ndigits) ==
    IF f.m = <<>> \/ f.e >= 0 THEN f
    ELSE FloatFromDec(Dec(f.neg,
                          BRoundDivMod(BDivMod(BMulPow10(f.m, ndigits), BPow2(-f.e)),
                                       BPow2(-f.e)),
                          -ndigits))

(***************************************************************************)
(* A float literal of the source or of a caller: the decimal written,      *)
(* coefficient groups most significant first, read as a double.            *)
(***************************************************************************)
FloatLit(neg, groups, e) == FloatFromDec(Dec(neg, BLit(groups), e))

\* An amount of whole cents, as the float a caller passes.
FloatOfCents(neg, cents) == FloatFromDec(Dec(neg, cents, -2))

\* Decimal(str(x)) for a float x.
DecOfFloat(x) == FloatRepr(x)

FloatHundred == FloatLit(FALSE, <<100>>, 0)
FloatOne == FloatLit(FALSE, <<1>>, 0)

(***************************************************************************)
(* core/config.py: the defaults of the module-level singleton.             *)
(***************************************************************************)
COMMISSION_RATE == FloatLit(FALSE, <<5>>, -2)
ELIGIBILITY_THRESHOLD == FloatLit(FALSE, <<80>>, -2)
\* The ceiling the request schema puts on both amounts.
MAX_AMOUNT == FloatLit(FALSE, <<1>>, 12)

(***************************************************************************)
(* core/exceptions.py.  An exception is its class, message and details;    *)
(* details is a mapping from field names to values (a record).             *)
(***************************************************************************)
None == [none |-> TRUE]

NoDetails == [x \in {} |-> None]

IncentiveCalculatorException(kind, message, details) ==
    [kind |-> kind, message |-> message,
     details |-> IF details = None THEN NoDetails ELSE details]

ValidationError(message, details) ==
    IncentiveCalculatorException("ValidationError", message, details)

BusinessRuleViolation(message, details) ==
    IncentiveCalculatorException("BusinessRuleViolation", message, details)

ConfigurationError(message, details) ==
    IncentiveCalculatorException("ConfigurationError", message, details)

(***************************************************************************)
(* services/commission_service.py: CommissionCalculatorService.            *)
(***************************************************************************)

\* A configuration check that leaves the threshold alone.
validate_configuration_rate_only(commission_rate, eligibility_threshold) ==
    IF ~(FloatCmp(FloatZero, commission_rate) <= 0
         /\ FloatCmp(commission_rate, FloatOne) <= 0)
    THEN BusinessRuleViolation("commission_rate must be between 0 and 1",
                               [commission_rate |-> commission_rate])
    ELSE None

\* A configuration check without the upper bound on the rate.
validate_configuration_rate_unbounded(commission_rate, eligibility_threshold) ==
    IF ~(FloatCmp(FloatZero, commission_rate) <= 0)
    THEN BusinessRuleViolation("commission_rate must be between 0 and 1",
                               [commission_rate |-> commission_rate])
    ELSE IF ~(FloatCmp(FloatZero, eligibility_threshold) < 0
              /\ FloatCmp(eligibility_threshold, FloatOne) <= 0)
    THEN BusinessRuleViolation("eligibility_threshold must be between 0 and 1",
                               [eligibility_threshold |-> eligibility_threshold])
    ELSE None

\* A configuration check that lets a threshold of zero through.
validate_configuration_zero_threshold(commission_rate, eligibility_threshold) ==
    IF ~(FloatCmp(FloatZero, commission_rate) <= 0
         /\ FloatCmp(commission_rate, FloatOne) <= 0)
    THEN BusinessRuleViolation("commission_rate must be between 0 and 1",
                               [commission_rate |-> commission_rate])
    ELSE IF ~(FloatCmp(FloatZero, eligibility_threshold) <= 0
              /\ FloatCmp(eligibility_threshold, FloatOne) <= 0)
    THEN BusinessRuleViolation("eligibility_threshold must be between 0 and 1",
                               [eligibility_threshold |-> eligibility_threshold])
    ELSE None

\* A configuration check that raises the per-call error kind.
validate_configuration_as_input_error(commission_rate, eligibility_threshold) ==
    IF ~(FloatCmp(FloatZero, commission_rate) <= 0
         /\ FloatCmp(commission_rate, FloatOne) <= 0)
    THEN ValidationError("commission_rate must be between 0 and 1",
                         [commission_rate |-> commission_rate])
    ELSE IF ~(FloatCmp(FloatZero, eligibility_threshold) < 0
              /\ FloatCmp(eligibility_threshold, FloatOne) <= 0)
    THEN ValidationError("eligibility_threshold must be between 0 and 1",
                         [eligibility_threshold |-> eligibility_threshold])
    ELSE None

\* _validate_configuration: None, or the exception raised.
validate_configuration(commission_rate, eligibility_threshold) ==
    IF ~(FloatCmp(FloatZero, commission_rate) <= 0
         /\ FloatCmp(commission_rate, FloatOne) <= 0)
    THEN BusinessRuleViolation("commission_rate must be between 0 and 1",
                               [commission_rate |-> commission_rate])
    ELSE IF ~(FloatCmp(FloatZero, eligibility_threshold) < 0
              /\ FloatCmp(eligibility_threshold, FloatOne) <= 0)
    THEN BusinessRuleViolation("eligibility_threshold must be between 0 and 1",
                               [eligibility_threshold |-> eligibility_threshold])
    ELSE None

\* An input check that looks at the target before the sales amount.
validate_inputs_target_first(sales_amount, target_amount) ==
    IF FloatCmp(target_amount, FloatZero) <= 0
    THEN ValidationError("target_amount must be greater than zero",
                         [target_amount |-> target_amount])
    ELSE IF FloatCmp(sales_amount, FloatZero) < 0
    THEN ValidationError("sales_amount cannot be negative",
                         [sales_amount |-> sales_amount])
    ELSE None

\* An input check that looks at the sales amount only.
validate_inputs_sales_only(sales_amount, target_amount) ==
    IF FloatCmp(sales_amount, FloatZero) < 0
    THEN ValidationError("sales_amount cannot be negative",
                         [sales_amount |-> sales_amount])
    ELSE None

\* An input check that also turns away a sales amount of zero.
validate_inputs_positive_sales(sales_amount, target_amount) ==
    IF FloatCmp(sales_amount, FloatZero) <= 0
    THEN ValidationError("sales_amount cannot be negative",
                         [sales_amount |-> sales_amount])
    ELSE IF FloatCmp(target_amount, FloatZero) <= 0
    THEN ValidationError("target_amount must be greater than zero",
                         [target_amount |-> target_amount])
    ELSE None

\* _validate_inputs: None, or the exception raised.
validate_inputs(sales_amount, target_amount) ==
    IF FloatCmp(sales_amount, FloatZero) < 0
    THEN ValidationError("sales_amount cannot be negative",
                         [sales_amount |-> sales_amount])
    ELSE IF FloatCmp(target_amount, FloatZero) <= 0
    THEN ValidationError("target_amount must be greater than zero",
                         [target_amount |-> target_amount])
    ELSE None

\* _calculate_percentage: float((Decimal(str(s)) / Decimal(str(t))) * 100).
calculate_percentage(sales_amount, target_amount) ==
    LET sales_decimal == DecOfFloat(sales_amount)
        target_decimal == DecOfFloat(target_amount)
        percentage == DecMul(DecDiv(sales_decimal, target_decimal), DecHundred)
    IN  FloatFromDec(percentage)

\* An eligibility test with the comparison turned round.
is_eligible_up_to_threshold(eligibility_threshold, percentage_of_target) ==
    LET threshold_percentage == FloatMul(eligibility_threshold, FloatHundred)
        percentage_decimal == DecOfFloat(percentage_of_target)
        threshold_decimal == DecOfFloat(threshold_percentage)
    IN  DecCmp(percentage_decimal, threshold_decimal) <= 0

\* _is_eligible: the threshold percentage is a float product; both sides are
\* then compared as Decimal(str(.)).
is_eligible(eligibility_threshold, percentage_of_target) ==
    LET threshold_percentage == FloatMul(eligibility_threshold, FloatHundred)
        percentage_decimal == DecOfFloat(percentage_of_target)
        threshold_decimal == DecOfFloat(threshold_percentage)
    IN  DecCmp(percentage_decimal, threshold_decimal) >= 0

\* decimal.InvalidOperation: not one of the service's exceptions; it has no
\* message or details of its own.
InvalidOperation ==
    [kind |-> "InvalidOperation", message |-> "", details |-> NoDetails]

IsException(x) == "kind" \in DOMAIN x

\* rounding=ROUND_HALF_UP at commission_service.py:202.
CommissionRounding == "ROUND_HALF_UP"

\* A commission computed whatever the eligibility.
commission_amount_regardless(commission_rate, sales_amount, eligible) ==
    LET commission == DecQuantize(DecMul(DecOfFloat(sales_amount),
                                         DecOfFloat(commission_rate)),
                                  -2, "ROUND_HALF_UP")
    IN  IF commission = DecInvalid THEN InvalidOperation ELSE FloatFromDec(commission)

\* _calculate_commission_amount: the commission, or the exception that
\* quantize raises.
calculate_commission_amount(commission_rate, sales_amount, eligible) ==
    IF ~eligible THEN FloatZero
    ELSE LET sales_decimal == DecOfFloat(sales_amount)
             rate_decimal == DecOfFloat(commission_rate)
             commission == DecQuantize(DecMul(sales_decimal, rate_decimal),
                                       -2, CommissionRounding)
         IN  IF commission = DecInvalid THEN InvalidOperation
             ELSE FloatFromDec(commission)

\* CommissionResult (a NamedTuple).
CommissionResult(commission, eligible, percentage_of_target) ==
    [commission |-> commission, eligible |-> eligible,
     percentage_of_target |-> percentage_of_target]

Returns(value) == [raised |-> FALSE, value |-> value]
Raises(exception) == [raised |-> TRUE, value |-> exception]

\* calculate_commission, start to end, for one call on its own.
calculate_commission(commission_rate, eligibility_threshold, sales_amount, target_amount) ==
    LET raised == validate_inputs(sales_amount, target_amount)
        percentage_of_target_precise == calculate_percentage(sales_amount, target_amount)
        eligible == is_eligible(eligibility_threshold, percentage_of_target_precise)
        commission == calculate_commission_amount(commission_rate, sales_amount, eligible)
        percentage_for_display == FloatRound(percentage_of_target_precise, 2)
    IN  IF raised # None THEN Raises(raised)
        ELSE IF IsException(commission) THEN Raises(commission)
        ELSE Returns(CommissionResult(commission, eligible, percentage_for_display))

(***************************************************************************)
(* schemas/commission.py: the request and response models.  A JSON field   *)
(* is absent, a string that is no number, or a number; a number reaches    *)
(* the model as a float.                                                   *)
(***************************************************************************)
MIN_AMOUNT == FloatZero

JsonMissing == [json |-> "missing"]
JsonString(text) == [json |-> "string", text |-> text]
JsonNumber(value) == [json |-> "number", value |-> value]

\* One entry of a pydantic validation error: its type, the field, the
\* message, the input and the context (the bound of a constraint, or the
\* exception object a validator function raised).
ErrorDetails(type, field, msg, input, ctx) ==
    [type |-> type, loc |-> <<"body", field>>, msg |-> msg, input |-> input, ctx |-> ctx]

NoContext == [x \in {} |-> None]

FieldOk(value) == [ok |-> TRUE, value |-> value]
FieldError(error) == [ok |-> FALSE, error |-> error]

\* The parsing of a float field, before its constraints.
float_field(field, input, body) ==
    IF input.json = "missing"
    THEN FieldError(ErrorDetails("missing", field, "Field required", body, NoContext))
    ELSE IF input.json = "string"
    THEN FieldError(ErrorDetails("float_parsing", field,
                                 "Input should be a valid number, unable to parse string as a number",
                                 input, NoContext))
    ELSE FieldOk(input.value)

\* validate_numeric_precision: round(value, 2).
validate_numeric_precision(value) == FloatRound(value, 2)

\* sales_amount: float, ge=MIN_AMOUNT, le=MAX_AMOUNT, then the validator.
sales_amount_field(input, body) ==
    LET parsed == float_field("sales_amount", input, body)
    IN  IF ~parsed.ok THEN parsed
        ELSE IF ~(FloatCmp(parsed.value, MIN_AMOUNT) >= 0)
        THEN FieldError(ErrorDetails("greater_than_equal", "sales_amount",
                                     "Input should be greater than or equal to 0",
                                     input, [ge |-> MIN_AMOUNT]))
        ELSE IF ~(FloatCmp(parsed.value, MAX_AMOUNT) <= 0)
        THEN FieldError(ErrorDetails("less_than_equal", "sales_amount",
                                     "Input should be less than or equal to 1000000000000",
                                     input, [le |-> MAX_AMOUNT]))
        ELSE FieldOk(validate_numeric_precision(parsed.value))

\* A ValueError raised inside a validator function, as an object.
ValueError(message) == [exception |-> "ValueError", args |-> <<message>>]

\* A validator that lets a target of zero through.
validate_target_not_negative(value, input) ==
    IF FloatCmp(value, FloatZero) < 0
    THEN FieldError(ErrorDetails("value_error", "target_amount",
                                 "Value error, target_amount must be greater than zero",
                                 input,
                                 [error |-> ValueError("target_amount must be greater than zero")]))
    ELSE FieldOk(value)

\* validate_target_not_zero, on the rounded value.
validate_target_not_zero(value, input) ==
    IF FloatCmp(value, FloatZero) <= 0
    THEN FieldError(ErrorDetails("value_error", "target_amount",
                                 "Value error, target_amount must be greater than zero",
                                 input,
                                 [error |-> ValueError("target_amount must be greater than zero")]))
    ELSE FieldOk(value)

\* target_amount: float, gt=MIN_AMOUNT, le=MAX_AMOUNT, then the two
\* validators in the order of their definition.
target_amount_field(input, body) ==
    LET parsed == float_field("target_amount", input, body)
    IN  IF ~parsed.ok THEN parsed
        ELSE IF ~(FloatCmp(parsed.value, MIN_AMOUNT) > 0)
        THEN FieldError(ErrorDetails("greater_than", "target_amount",
                                     "Input should be greater than 0",
                                     input, [gt |-> MIN_AMOUNT]))
        ELSE IF ~(FloatCmp(parsed.value, MAX_AMOUNT) <= 0)
        THEN FieldError(ErrorDetails("less_than_equal", "target_amount",
                                     "Input should be less than or equal to 1000000000000",
                                     input, [le |-> MAX_AMOUNT]))
        ELSE validate_target_not_zero(validate_numeric_precision(parsed.value), input)

Body(sales_amount, target_amount) ==
    [sales_amount |-> sales_amount, target_amount |-> target_amount]

\* The model, or the errors of the fields that failed.
validated_model(sales, target) ==
    IF sales.ok /\ target.ok
    THEN [valid |-> TRUE, sales_amount |-> sales.value, target_amount |-> target.value]
    ELSE [valid |-> FALSE,
          errors |-> (IF sales.ok THEN <<>> ELSE <<sales.error>>)
                         \o (IF target.ok THEN <<>> ELSE <<target.error>>)]

\* CommissionRequest: every field is validated and the errors are collected
\* in field order.
CommissionRequest(body) ==
    validated_model(sales_amount_field(body.sales_amount, body),
                    target_amount_field(body.target_amount, body))

\* The class of a pydantic validation failure of a model; it is not the
\* ValidationError of core/exceptions.py, but it has the same class name.
PydanticValidationError(errors) ==
    [kind |-> "ValidationError", pydantic |-> TRUE, errors |-> errors]

FloatThousand == FloatLit(FALSE, <<1000>>, 0)

\* CommissionResponse: commission ge=0.0; percentage_of_target ge=0.0, le=1000.0.
CommissionResponse(commission, eligible, percentage_of_target) ==
    IF ~(FloatCmp(commission, FloatZero) >= 0)
    THEN Raises(PydanticValidationError(<<"commission", "greater_than_equal">>))
    ELSE IF ~(FloatCmp(percentage_of_target, FloatZero) >= 0)
    THEN Raises(PydanticValidationError(<<"percentage_of_target", "greater_than_equal">>))
    ELSE IF ~(FloatCmp(percentage_of_target, FloatThousand) <= 0)
    THEN Raises(PydanticValidationError(<<"percentage_of_target", "less_than_equal">>))
    ELSE Returns([commission |-> commission, eligible |-> eligible,
                  percentage_of_target |-> percentage_of_target])

\* ErrorResponse: the documented shape of an error body.
ErrorResponse(error, message, details) ==
    [error |-> error, message |-> message, details |-> details]

(***************************************************************************)
(* main.py and api/routes/commission.py: responses.                        *)
(***************************************************************************)
HTTP_200_OK == 200
HTTP_400_BAD_REQUEST == 400
HTTP_422_UNPROCESSABLE_ENTITY == 422
HTTP_500_INTERNAL_SERVER_ERROR == 500

JSONResponse(status_code, content) == [status_code |-> status_code, content |-> content]

\* generic_exception_handler: the handler of every exception no other
\* handler takes, given the exception's class name.
generic_exception_handler(exc_class) ==
    JSONResponse(HTTP_500_INTERNAL_SERVER_ERROR,
                 ErrorResponse("InternalServerError",
                               "An unexpected error occurred. Please contact support.",
                               [error_type |-> exc_class]))

\* json.dumps of an error list: an exception object in a context is not
\* JSON serializable.
JsonSerializable(errors) ==
    \A i \in 1 .. Len(errors) : "error" \notin DOMAIN errors[i].ctx

\* validation_exception_handler: the 422 body is built from the first error
\* and carries the whole list; rendering it raises TypeError when the list
\* is not serializable, and that exception goes to the generic handler.
validation_exception_handler(errors) ==
    LET first_error == errors[1]
        field == first_error.loc
        message == first_error.msg
    IN  IF JsonSerializable(errors)
        THEN JSONResponse(HTTP_422_UNPROCESSABLE_ENTITY,
                          ErrorResponse("ValidationError",
                                        <<"Invalid input for field", field, message>>,
                                        [field |-> field, errors |-> errors]))
        ELSE generic_exception_handler("TypeError")

\* raise HTTPException(status_code, detail): the framework answers with the
\* detail under the key "detail".
HTTPException(status_code, detail) ==
    JSONResponse(status_code, [detail |-> detail])

\* The except clauses of the route function.
route_except(e) ==
    IF e.kind \in {"ValidationError", "BusinessRuleViolation"} /\ "pydantic" \notin DOMAIN e
    THEN HTTPException(HTTP_400_BAD_REQUEST, ErrorResponse(e.kind, e.message, e.details))
    ELSE HTTPException(HTTP_500_INTERNAL_SERVER_ERROR,
                       ErrorResponse("InternalServerError", "An unexpected error occurred",
                                     [error_type |-> e.kind]))

\* return CommissionResponse(...): the response model is returned, or the
\* exception building it raised is handled by the except clauses.
route_return(response) ==
    IF response.raised THEN route_except(response.value)
    ELSE JSONResponse(HTTP_200_OK, response.value)

\* The route function after the service call: outcome is what
\* commission_service.calculate_commission returned or raised.
route_respond(outcome) ==
    IF outcome.raised THEN route_except(outcome.value)
    ELSE route_return(CommissionResponse(outcome.value.commission, outcome.value.eligible,
                                         outcome.value.percentage_of_target))

(***************************************************************************)
(* Bounds of the exploration.                                              *)
(***************************************************************************)
\* Sales are taken up to MaxEps cents on either side of threshold * target.
MaxEps == 2
\* Calls in flight at once on the shared instance.
NumCallers == 2

Callers == 1 .. NumCallers

\* Configurations offered to the constructor (rates and thresholds).
Rates ==
    { FloatLit(TRUE, <<1>>, -1), FloatZero, FloatLit(FALSE, <<5>>, -2),
      FloatLit(FALSE, <<8377, 9007, 4083, 3819>>, -17),
      FloatOne, FloatLit(FALSE, <<11>>, -1) }

ThresholdPercents == {7, 57, 80, 100}

Thresholds ==
    { FloatLit(FALSE, <<p>>, -2) : p \in ThresholdPercents }
        \cup { FloatZero, FloatLit(FALSE, <<15>>, -1) }

\* Targets, in cents: 100.00 and 120000.00.
TargetCents == {10000, 12000000}

Args(sales_amount, target_amount) ==
    [sales_amount |-> sales_amount, target_amount |-> target_amount]

\* Sales within MaxEps cents of threshold * target, for every threshold.
BoundaryArgs ==
    { Args(FloatOfCents(FALSE, BFromInt((t \div 100) * p + j)),
           FloatOfCents(FALSE, BFromInt(t))) :
        t \in TargetCents, p \in ThresholdPercents, j \in (-MaxEps) .. MaxEps }

\* Magnitudes, signs and zeros: each pair is sales cents, target cents.
SpecialArgs ==
    { Args(FloatOfCents(FALSE, BLit(<<1000, 0>>)), FloatOfCents(FALSE, BLit(<<1200, 0>>))),
      Args(FloatOfCents(FALSE, BLit(<<1000, 33>>)), FloatOfCents(FALSE, BLit(<<1200, 0>>))),
      Args(FloatOfCents(FALSE, BLit(<<1500, 0>>)), FloatOfCents(FALSE, BLit(<<1200, 0>>))),
      Args(FloatOfCents(FALSE, BLit(<<900, 0>>)), FloatOfCents(FALSE, BLit(<<1200, 0>>))),
      Args(FloatZero, FloatOfCents(FALSE, BLit(<<1200, 0>>))),
      Args(FloatZero, FloatOfCents(FALSE, BLit(<<1>>))),
      Args(FloatOfCents(TRUE, BLit(<<10, 0>>)), FloatOfCents(FALSE, BLit(<<1200, 0>>))),
      Args(FloatOfCents(FALSE, BLit(<<1000, 0>>)), FloatZero),
      Args(FloatOfCents(FALSE, BLit(<<1000, 0>>)), FloatOfCents(TRUE, BLit(<<1200, 0>>))),
      Args(FloatOfCents(TRUE, BLit(<<10, 0>>)), FloatZero),
      Args(FloatOfCents(TRUE, BLit(<<10, 0>>)), FloatOfCents(TRUE, BLit(<<1200, 0>>))),
      Args(FloatOfCents(FALSE, BLit(<<10>>)), FloatOfCents(FALSE, BLit(<<10>>))),
      Args(FloatOfCents(FALSE, BLit(<<100>>)), FloatOfCents(FALSE, BLit(<<100>>))),
      Args(FloatOfCents(FALSE, BLit(<<5699, 9999, 9999, 9999>>)),
           FloatOfCents(FALSE, BLit(<<1, 0, 0, 0, 0>>))),
      Args(FloatOfCents(FALSE, BLit(<<9, 9999, 9999, 9999>>)), FloatOfCents(FALSE, BLit(<<7>>))),
      Args(FloatOfCents(FALSE, BLit(<<56, 9999, 9999, 9996>>)),
           FloatOfCents(FALSE, BLit(<<99, 9999, 9999, 9993>>))),
      Args(FloatOfCents(FALSE, BLit(<<17, 9417, 2110, 8442>>)), FloatOfCents(FALSE, BLit(<<1, 0>>))),
      Args(FloatOfCents(FALSE, BLit(<<1, 0, 0, 0, 0, 0, 0, 0, 0>>)),
           FloatOfCents(FALSE, BLit(<<100>>))) }

AllArgs == BoundaryArgs \cup SpecialArgs

\* Arguments of the concurrent calls: at the default threshold, one cent
\* below it, and a zero target.
ConcArgs ==
    { Args(FloatOfCents(FALSE, BLit(<<960, 0>>)), FloatOfCents(FALSE, BLit(<<1200, 0>>))),
      Args(FloatOfCents(FALSE, BLit(<<959, 9999>>)), FloatOfCents(FALSE, BLit(<<1200, 0>>))),
      Args(FloatOfCents(FALSE, BLit(<<1000, 0>>)), FloatZero) }

\* Settings the service module may be imported under: the defaults, the
\* largest rate and threshold, a rate above one and a threshold of zero.
Environments ==
    { [commission_rate |-> COMMISSION_RATE, eligibility_threshold |-> ELIGIBILITY_THRESHOLD],
      [commission_rate |-> FloatOne, eligibility_threshold |-> FloatOne],
      [commission_rate |-> FloatLit(FALSE, <<11>>, -1),
       eligibility_threshold |-> ELIGIBILITY_THRESHOLD],
      [commission_rate |-> COMMISSION_RATE, eligibility_threshold |-> FloatZero] }

\* sales_amount fields of a request body: -1000.00, -0.001, 0, 95999.99,
\* 96000, 100000, 100000.335, 1500000, 999999999999.99, 1e12 and 1e13;
\* absent; a string.
SalesFields ==
    { JsonNumber(FloatLit(TRUE, <<1000>>, 0)), JsonNumber(FloatLit(TRUE, <<1>>, -3)),
      JsonNumber(FloatZero), JsonNumber(FloatLit(FALSE, <<959, 9999>>, -2)),
      JsonNumber(FloatLit(FALSE, <<96>>, 3)), JsonNumber(FloatLit(FALSE, <<1>>, 5)),
      JsonNumber(FloatLit(FALSE, <<1, 0, 335>>, -3)), JsonNumber(FloatLit(FALSE, <<15>>, 5)),
      JsonNumber(FloatLit(FALSE, <<99, 9999, 9999, 9999>>, -2)),
      JsonNumber(FloatLit(FALSE, <<1>>, 12)), JsonNumber(FloatLit(FALSE, <<1>>, 13)),
      JsonMissing, JsonString("invalid") }

\* target_amount fields: 120000, 0, -120000, 0.004, 0.005, 0.01, 1e12 and
\* 1e13; absent; a string.
TargetFields ==
    { JsonNumber(FloatLit(FALSE, <<12>>, 4)), JsonNumber(FloatZero),
      JsonNumber(FloatLit(TRUE, <<12>>, 4)), JsonNumber(FloatLit(FALSE, <<4>>, -3)),
      JsonNumber(FloatLit(FALSE, <<5>>, -3)), JsonNumber(FloatLit(FALSE, <<1>>, -2)),
      JsonNumber(FloatLit(FALSE, <<1>>, 12)), JsonNumber(FloatLit(FALSE, <<1>>, 13)),
      JsonMissing, JsonString("invalid") }

Bodies == { Body(s, t) : s \in SalesFields, t \in TargetFields }

(***************************************************************************)
(* State.  engine is a CommissionCalculatorService instance (or the failed *)
(* attempt to build one) with the arguments its constructor was given;     *)
(* calls[c] is the frame of call c of calculate_commission: its position   *)
(* and its locals; returned is what the callers have been handed back;     *)
(* http[c] is the exchange of client c with POST /api/v1/commission: the   *)
(* body sent, the validated request and the response.                      *)
(***************************************************************************)
VARIABLES engine, calls, returned, http

vars == <<engine, calls, returned, http>>

Config(commission_rate, eligibility_threshold) ==
    [commission_rate |-> commission_rate, eligibility_threshold |-> eligibility_threshold]

IdleFrame ==
    [pc |-> "idle", sales_amount |-> None, target_amount |-> None,
     percentage_of_target_precise |-> None, eligible |-> None,
     commission |-> None, outcome |-> None]

IdleExchange ==
    [phase |-> "idle", body |-> None, request |-> None, response |-> None]

\* Before any constructor has run.
Init ==
    /\ engine = [status |-> "unconstructed", given |-> None, commission_rate |-> None,
                 eligibility_threshold |-> None, error |-> None]
    /\ calls = [c \in Callers |-> IdleFrame]
    /\ returned = {}
    /\ http = [c \in Callers |-> IdleExchange]

\* After import of commission_service.py: the singleton built from settings.
InitSingleton ==
    /\ engine = [status |-> "ready",
                 given |-> Config(COMMISSION_RATE, ELIGIBILITY_THRESHOLD),
                 commission_rate |-> COMMISSION_RATE,
                 eligibility_threshold |-> ELIGIBILITY_THRESHOLD, error |-> None]
    /\ calls = [c \in Callers |-> IdleFrame]
    /\ returned = {}
    /\ http = [c \in Callers |-> IdleExchange]

\* A constructor that stores the configuration whatever the check says.
ConstructUnchecked(commission_rate, eligibility_threshold) ==
    /\ engine.status = "unconstructed"
    /\ engine' = [engine EXCEPT !.status = "ready",
                                !.given = Config(commission_rate, eligibility_threshold),
                                !.commission_rate = commission_rate,
                                !.eligibility_threshold = eligibility_threshold]
    /\ UNCHANGED <<calls, returned, http>>

\* __init__: validate, then store the configuration.
Construct(commission_rate, eligibility_threshold) ==
    /\ engine.status = "unconstructed"
    /\ LET raised == validate_configuration(commission_rate, eligibility_threshold)
       IN  engine' =
               IF raised # None
               THEN [engine EXCEPT !.status = "failed", !.error = raised,
                                   !.given = Config(commission_rate, eligibility_threshold)]
               ELSE [engine EXCEPT !.status = "ready",
                                   !.given = Config(commission_rate, eligibility_threshold),
                                   !.commission_rate = commission_rate,
                                   !.eligibility_threshold = eligibility_threshold]
    /\ UNCHANGED <<calls, returned, http>>

\* The exchange after the framework has validated the body.
ValidatedExchange(body, request) ==
    IF request.valid
    THEN [phase |-> "validated", body |-> body, request |-> request, response |-> None]
    ELSE [phase |-> "responded", body |-> body, request |-> request,
          response |-> validation_exception_handler(request.errors)]

\* The arguments the route function hands the service: the fields of the
\* validated request.
ServiceArgs(c) ==
    Args(http[c].request.sales_amount, http[c].request.target_amount)

\* A caller enters calculate_commission on the constructed instance.
Invoke(c, sales_amount, target_amount) ==
    /\ engine.status = "ready"
    /\ calls[c].pc = "idle"
    /\ calls' = [calls EXCEPT ![c] = [IdleFrame EXCEPT !.pc = "validate",
                                         !.sales_amount = sales_amount,
                                         !.target_amount = target_amount]]
    /\ UNCHANGED <<engine, returned, http>>

\* Step 1: self._validate_inputs(sales_amount, target_amount).
ValidateInputs(c) ==
    /\ calls[c].pc = "validate"
    /\ LET raised == validate_inputs(calls[c].sales_amount, calls[c].target_amount)
       IN  calls' = [calls EXCEPT ![c] =
                        IF raised # None
                        THEN [@ EXCEPT !.pc = "raised", !.outcome = Raises(raised)]
                        ELSE [@ EXCEPT !.pc = "percentage"]]
    /\ UNCHANGED <<engine, returned, http>>

\* Step 2: percentage_of_target_precise = self._calculate_percentage(...).
CalculatePercentage(c) ==
    /\ calls[c].pc = "percentage"
    /\ calls' = [calls EXCEPT ![c] =
                    [@ EXCEPT !.pc = "eligible",
                              !.percentage_of_target_precise =
                                  calculate_percentage(calls[c].sales_amount, calls[c].target_amount)]]
    /\ UNCHANGED <<engine, returned, http>>

\* The percentage most recently left in any frame, the caller's or another's.
SomePercentage(c) ==
    LET others == {d \in Callers : calls[d].pc \in {"eligible", "commission", "display"}}
    IN  calls[CHOOSE d \in others : \A o \in others : d >= o].percentage_of_target_precise

\* The percentage handed to _is_eligible: the call's own unrounded local.
PercentageArg(c) == calls[c].percentage_of_target_precise

\* A step 3 that keeps the threshold percentage in the instance.
IsEligibleScalingThreshold(c) ==
    /\ calls[c].pc = "eligible"
    /\ calls' = [calls EXCEPT ![c] =
                    [@ EXCEPT !.pc = "commission",
                              !.eligible = is_eligible(engine.eligibility_threshold,
                                                       PercentageArg(c))]]
    /\ engine' = [engine EXCEPT !.eligibility_threshold = FloatMul(@, FloatHundred)]
    /\ UNCHANGED <<returned, http>>

\* Step 3: eligible = self._is_eligible(percentage_of_target_precise).
IsEligible(c) ==
    /\ calls[c].pc = "eligible"
    /\ calls' = [calls EXCEPT ![c] =
                    [@ EXCEPT !.pc = "commission",
                              !.eligible = is_eligible(engine.eligibility_threshold,
                                                       PercentageArg(c))]]
    /\ UNCHANGED <<engine, returned, http>>

\* The eligibility left in any frame, the caller's or another's.
SomeEligible(c) ==
    LET others == {d \in Callers : calls[d].pc \in {"commission", "display"}}
    IN  calls[CHOOSE d \in others : \A o \in others : d >= o].eligible

\* The eligibility handed to _calculate_commission_amount: the call's own local.
EligibleArg(c) == calls[c].eligible

\* The frame after step 4: the exception leaves calculate_commission, a value
\* is bound to the local commission.
AfterCommissionAmount(frame, commission) ==
    IF IsException(commission)
    THEN [frame EXCEPT !.pc = "raised", !.outcome = Raises(commission)]
    ELSE [frame EXCEPT !.pc = "display", !.commission = commission]

\* Step 4: commission = self._calculate_commission_amount(sales_amount, eligible).
CalculateCommissionAmount(c) ==
    /\ calls[c].pc = "commission"
    /\ calls' = [calls EXCEPT ![c] =
                    AfterCommissionAmount(calls[c],
                                          calculate_commission_amount(engine.commission_rate,
                                                                      calls[c].sales_amount,
                                                                      EligibleArg(c)))]
    /\ UNCHANGED <<engine, returned, http>>

\* Steps 5 and 6: round the percentage for display and return the result.
ReturnResult(c) ==
    /\ calls[c].pc = "display"
    /\ LET percentage_for_display == FloatRound(calls[c].percentage_of_target_precise, 2)
       IN  calls' = [calls EXCEPT ![c] =
                        [@ EXCEPT !.pc = "returned",
                                  !.outcome = Returns(CommissionResult(calls[c].commission,
                                                                       calls[c].eligible,
                                                                       percentage_for_display))]]
    /\ UNCHANGED <<engine, returned, http>>

Done(c) == calls[c].pc \in {"returned", "raised"}

\* The caller drops the frame.
Release(c) ==
    /\ Done(c)
    /\ calls' = [calls EXCEPT ![c] = IdleFrame]
    /\ UNCHANGED <<engine, returned, http>>

\* The caller keeps what it was handed, with the arguments it passed.
Finish(c) ==
    /\ Done(c)
    /\ returned' = returned \cup
           {[sales_amount |-> calls[c].sales_amount,
             target_amount |-> calls[c].target_amount,
             outcome |-> calls[c].outcome]}
    /\ calls' = [calls EXCEPT ![c] = IdleFrame]
    /\ UNCHANGED <<engine, http>>

\* One caller, any configuration, the full range of arguments.
Next ==
    \/ \E r \in Rates, th \in Thresholds : Construct(r, th)
    \/ \E a \in AllArgs : Invoke(1, a.sales_amount, a.target_amount)
    \/ ValidateInputs(1)
    \/ CalculatePercentage(1)
    \/ IsEligible(1)
    \/ CalculateCommissionAmount(1)
    \/ ReturnResult(1)
    \/ Release(1)

Spec == Init /\ [][Next]_vars

\* Concurrent callers of the singleton, interleaved step by step.
NextConc ==
    \E c \in Callers :
        \/ \E a \in ConcArgs : Invoke(c, a.sales_amount, a.target_amount)
        \/ ValidateInputs(c)
        \/ CalculatePercentage(c)
        \/ IsEligible(c)
        \/ CalculateCommissionAmount(c)
        \/ ReturnResult(c)
        \/ Finish(c)

SpecConc == InitSingleton /\ [][NextConc]_vars

(***************************************************************************)
(* POST /api/v1/commission.  The framework validates the body against      *)
(* CommissionRequest before the route function runs; the route function    *)
(* calls the singleton and turns what comes back into a response.          *)
(***************************************************************************)

\* A request arrives at the imported application: a body that fails the
\* schema is answered by validation_exception_handler, a body that passes
\* becomes the request of the route function.
Post(c, body) ==
    /\ engine.status = "ready"
    /\ http[c].phase = "idle"
    /\ calls[c].pc = "idle"
    /\ http' = [http EXCEPT ![c] = ValidatedExchange(body, CommissionRequest(body))]
    /\ UNCHANGED <<engine, calls, returned>>

\* commission_service.calculate_commission(sales_amount=request.sales_amount,
\* target_amount=request.target_amount): the route function enters the call.
RouteCall(c) ==
    /\ http[c].phase = "validated"
    /\ http' = [http EXCEPT ![c].phase = "calling"]
    /\ calls' = [calls EXCEPT ![c] =
                    [IdleFrame EXCEPT !.pc = "validate",
                                      !.sales_amount = ServiceArgs(c).sales_amount,
                                      !.target_amount = ServiceArgs(c).target_amount]]
    /\ UNCHANGED <<engine, returned>>

\* The call is over: the route function builds the response or its except
\* clauses do.
RouteReturn(c) ==
    /\ http[c].phase = "calling"
    /\ Done(c)
    /\ http' = [http EXCEPT ![c].phase = "responded",
                            ![c].response = route_respond(calls[c].outcome)]
    /\ UNCHANGED <<engine, calls, returned>>

\* The response is sent, the route function's frame is gone and the
\* exchange is over.
Deliver(c) ==
    /\ http[c].phase = "responded"
    /\ http' = [http EXCEPT ![c] = IdleExchange]
    /\ calls' = [calls EXCEPT ![c] = IdleFrame]
    /\ UNCHANGED <<engine, returned>>

\* One client of the endpoint, under each of the settings.
NextApi ==
    \/ \E env \in Environments : Construct(env.commission_rate, env.eligibility_threshold)
    \/ \E body \in Bodies : Post(1, body)
    \/ RouteCall(1)
    \/ ValidateInputs(1)
    \/ CalculatePercentage(1)
    \/ IsEligible(1)
    \/ CalculateCommissionAmount(1)
    \/ ReturnResult(1)
    \/ RouteReturn(1)
    \/ Deliver(1)

SpecApi == Init /\ [][NextApi]_vars

(***************************************************************************)
(* Exact arithmetic on the amounts, for stating the properties: an amount  *)
(* is the decimal its float prints as; products and sums are not rounded.  *)
(***************************************************************************)
Amount(x) == FloatRepr(x)

ExactProduct(a, b) == Dec(a.neg # b.neg, BMul(a.c, b.c), a.e + b.e)

\* a + b for a, b >= 0.
ExactSum(a, b) ==
    LET e == IF a.e < b.e THEN a.e ELSE b.e
    IN  Dec(FALSE, BAdd(BMulPow10(a.c, a.e - e), BMulPow10(b.c, b.e - e)), e)

OneCent == Dec(FALSE, <<1>>, -2)
HalfCent == Dec(FALSE, <<5>>, -3)

Result(c) == calls[c].outcome.value

Returned(c) == calls[c].pc = "returned"

\* sales compared with threshold * target, exactly: -1, 0 or 1.
CmpWithThreshold(c) ==
    DecCmp(Amount(calls[c].sales_amount),
           ExactProduct(Amount(engine.eligibility_threshold), Amount(calls[c].target_amount)))

\* C1: for every configuration and every valid input whose exact percentage
\* sales / target * 100 is strictly below threshold * 100, the call returns
\* eligible = false and commission = 0.00.
DisplayDoesNotDecide ==
    \A c \in Callers :
        (Returned(c) /\ CmpWithThreshold(c) < 0)
            => (Result(c).eligible = FALSE /\ Result(c).commission = FloatZero)

\* C2: eligibility is a closed lower bound at exactly threshold * target:
\* sales = threshold * target is eligible, and sales one cent or more below
\* threshold * target is not, for every threshold.
ClosedLowerBoundAtThreshold ==
    \A c \in Callers :
        Returned(c) =>
            /\ CmpWithThreshold(c) = 0 => Result(c).eligible = TRUE
            /\ DecCmp(ExactSum(Amount(calls[c].sales_amount), OneCent),
                      ExactProduct(Amount(engine.eligibility_threshold),
                                   Amount(calls[c].target_amount))) <= 0
                   => Result(c).eligible = FALSE

\* The exact product sales * rate of call c.
SalesTimesRate(c) ==
    ExactProduct(Amount(calls[c].sales_amount), Amount(engine.commission_rate))

\* C3 as stated: for every eligible input the commission is sales * rate
\* rounded half-up to 2 decimals, exactly: it has at most 2 fractional digits
\* and lies in (sales * rate - 0.005, sales * rate + 0.005].
CommissionIsHalfUpOfProduct ==
    \A c \in Callers :
        (Returned(c) /\ Result(c).eligible)
            => LET commission == Amount(Result(c).commission)
               IN  /\ ~commission.neg
                   /\ DecFractionDigits(commission) <= 2
                   /\ DecCmp(SalesTimesRate(c), ExactSum(commission, HalfCent)) < 0
                   /\ DecCmp(commission, ExactSum(SalesTimesRate(c), HalfCent)) <= 0

\* C4: whenever the call returns eligible = false, the commission is exactly
\* 0.00, whatever the sales amount and the rate.
ZeroBelowThreshold ==
    \A c \in Callers :
        (Returned(c) /\ ~Result(c).eligible) => Result(c).commission = FloatZero

\* An ineligible call with sales above 10^13 at a nonzero rate has returned.
LargeIneligibleReturned ==
    \E c \in Callers :
        /\ Returned(c)
        /\ ~Result(c).eligible
        /\ Result(c).commission = FloatZero
        /\ ~FloatIsZero(engine.commission_rate)
        /\ DecCmp(Amount(calls[c].sales_amount), Dec(FALSE, <<1>>, 13)) > 0

DecOne == Dec(FALSE, <<1>>, 0)

\* C5 as stated: a call fails with ValidationError, and returns no result,
\* whenever sales_amount < 0 or target_amount <= 0, and returns a result for
\* every sales_amount >= 0 and target_amount > 0; the error's details carry
\* the name of an offending field and the offending value.
InputValidation ==
    \A c \in Callers :
        calls[c].pc \notin {"idle", "validate"} =>
            LET sales == Amount(calls[c].sales_amount)
                target == Amount(calls[c].target_amount)
                bad_sales == sales.neg
                bad_target == target.neg \/ DecIsZero(target)
            IN  /\ (bad_sales \/ bad_target) <=> calls[c].pc = "raised"
                /\ calls[c].pc = "raised" =>
                       /\ calls[c].outcome.raised
                       /\ Result(c).kind = "ValidationError"
                       /\ \/ bad_sales /\ Result(c).details =
                                 [sales_amount |-> calls[c].sales_amount]
                          \/ bad_target /\ Result(c).details =
                                 [target_amount |-> calls[c].target_amount]
                /\ calls[c].pc = "returned" =>
                       /\ ~calls[c].outcome.raised
                       /\ DOMAIN Result(c) = {"commission", "eligible", "percentage_of_target"}

\* C5, amended: a call fails with ValidationError, and returns no result,
\* whenever sales_amount < 0 or target_amount <= 0, the details carrying the
\* name of an offending field and the offending value; no other call fails
\* with ValidationError; and a call returns a result for every
\* sales_amount >= 0 and target_amount > 0 that are at most MAX_AMOUNT.
InputValidationWithinCeiling ==
    \A c \in Callers :
        calls[c].pc \notin {"idle", "validate"} =>
            LET sales == Amount(calls[c].sales_amount)
                target == Amount(calls[c].target_amount)
                bad_sales == sales.neg
                bad_target == target.neg \/ DecIsZero(target)
                within == /\ DecCmp(sales, Amount(MAX_AMOUNT)) <= 0
                          /\ DecCmp(target, Amount(MAX_AMOUNT)) <= 0
            IN  /\ (bad_sales \/ bad_target) =>
                       /\ calls[c].pc = "raised"
                       /\ calls[c].outcome.raised
                       /\ Result(c).kind = "ValidationError"
                       /\ \/ bad_sales /\ Result(c).details =
                                 [sales_amount |-> calls[c].sales_amount]
                          \/ bad_target /\ Result(c).details =
                                 [target_amount |-> calls[c].target_amount]
                /\ (calls[c].pc = "raised" /\ Result(c).kind = "ValidationError")
                       => (bad_sales \/ bad_target)
                /\ (~bad_sales /\ ~bad_target /\ within) =>
                       /\ calls[c].pc # "raised"
                       /\ calls[c].pc = "returned" =>
                              /\ ~calls[c].outcome.raised
                              /\ DOMAIN Result(c) =
                                     {"commission", "eligible", "percentage_of_target"}

\* A call with a zero target and positive sales has failed, naming target_amount.
ZeroTargetRejected ==
    \E c \in Callers :
        /\ calls[c].pc = "raised"
        /\ calls[c].target_amount = FloatZero
        /\ ~Amount(calls[c].sales_amount).neg
        /\ Result(c).kind = "ValidationError"
        /\ Result(c).details = [target_amount |-> FloatZero]

\* commission_rate in [0, 1] and eligibility_threshold in (0, 1], on the amounts.
ConfigInRange(given) ==
    LET rate == Amount(given.commission_rate)
        threshold == Amount(given.eligibility_threshold)
    IN  /\ ~rate.neg
        /\ DecCmp(rate, DecOne) <= 0
        /\ ~threshold.neg
        /\ ~DecIsZero(threshold)
        /\ DecCmp(threshold, DecOne) <= 0

\* C6: construction fails if and only if commission_rate is outside [0, 1] or
\* eligibility_threshold is outside (0, 1]; a successful construction stores
\* the configuration it was given.
ConstructionValidation ==
    engine.status # "unconstructed" =>
        /\ engine.status = "failed" <=> ~ConfigInRange(engine.given)
        /\ engine.status = "ready" =>
               /\ engine.commission_rate = engine.given.commission_rate
               /\ engine.eligibility_threshold = engine.given.eligibility_threshold

\* Construction with rate 0 and threshold 0 has failed.
ZeroThresholdRejected ==
    /\ engine.status = "failed"
    /\ engine.given.commission_rate = FloatZero
    /\ engine.given.eligibility_threshold = FloatZero

DisplayIsRoundedExactPercentage ==
    \A c \in Callers :
        Returned(c) =>
            LET shown == ExactProduct(Amount(Result(c).percentage_of_target),
                                      Amount(calls[c].target_amount))
                exact == ExactProduct(DecHundred, Amount(calls[c].sales_amount))
                slack == ExactProduct(HalfCent, Amount(calls[c].target_amount))
            IN  /\ DecFractionDigits(Amount(Result(c).percentage_of_target)) <= 2
                /\ ~shown.neg
                /\ DecCmp(shown, ExactSum(exact, slack)) <= 0
                /\ DecCmp(exact, ExactSum(shown, slack)) <= 0

SameArgs(a, b) ==
    a.sales_amount = b.sales_amount /\ a.target_amount = b.target_amount

\* C8: on one engine, any two calls with identical (sales_amount,
\* target_amount) return identical results or fail identically, whatever other
\* calls happen before or between them.
IdenticalArgsIdenticalOutcome ==
    /\ \A a, b \in returned : SameArgs(a, b) => a.outcome = b.outcome
    /\ \A c \in Callers :
           Done(c) => \A a \in returned : SameArgs(a, calls[c]) => a.outcome = calls[c].outcome

\* A call has come back with the outcome an earlier call with the same
\* arguments got, after a failing call and a successful call with other
\* arguments.
RepeatedAfterOtherCalls ==
    \E c \in Callers :
        /\ Returned(c)
        /\ \E a \in returned : SameArgs(a, calls[c]) /\ a.outcome = calls[c].outcome
        /\ \E a \in returned : ~SameArgs(a, calls[c]) /\ a.outcome.raised
        /\ \E a \in returned : ~SameArgs(a, calls[c]) /\ ~a.outcome.raised

\* What each call returns when run on its own on the singleton.
Alone ==
    { [sales_amount |-> a.sales_amount, target_amount |-> a.target_amount,
       outcome |-> calculate_commission(COMMISSION_RATE, ELIGIBILITY_THRESHOLD,
                                        a.sales_amount, a.target_amount)] :
        a \in ConcArgs }

\* C10: under every interleaving of concurrent calls on the singleton, each
\* call ends with exactly the outcome it has when run alone, and the
\* configuration stays as constructed.
EachCallAsIfAlone ==
    /\ engine.commission_rate = COMMISSION_RATE
    /\ engine.eligibility_threshold = ELIGIBILITY_THRESHOLD
    /\ \A c \in Callers :
           Done(c) => [sales_amount |-> calls[c].sales_amount,
                       target_amount |-> calls[c].target_amount,
                       outcome |-> calls[c].outcome] \in Alone

\* A call has returned its eligible result while another call, holding a
\* different percentage, is between its steps.
ReturnedWhileAnotherInFlight ==
    \E c, d \in Callers :
        /\ c # d
        /\ Returned(c)
        /\ Result(c).eligible
        /\ calls[d].pc \in {"eligible", "commission", "display"}
        /\ calls[d].percentage_of_target_precise # calls[c].percentage_of_target_precise

(***************************************************************************)
(* Construction and the calls.                                             *)
(***************************************************************************)

\* C11: a failed construction leaves no instance, and no call or request is
\* ever handled after it; whenever a calculate_commission call is executing,
\* the engine's commission_rate is in [0, 1] and its eligibility_threshold in
\* (0, 1].  The engine here is the singleton the endpoint calls.
FailedConstructionBlocksCalculation ==
    /\ [](/\ engine.status = "failed" =>
              /\ engine.commission_rate = None
              /\ engine.eligibility_threshold = None
              /\ \A c \in Callers : calls[c].pc = "idle" /\ http[c].phase = "idle"
          /\ \A c \in Callers :
                 calls[c].pc # "idle" =>
                     /\ engine.status = "ready"
                     /\ ConfigInRange(Config(engine.commission_rate,
                                             engine.eligibility_threshold))
          /\ \A c \in Callers : http[c].phase # "idle" => engine.status = "ready")
    /\ [][engine.status = "failed" => engine'.status = "failed"]_vars

\* The import under a rate of 1.1 has failed and no request is in progress.
FailedImportServesNothing ==
    /\ engine.status = "failed"
    /\ engine.given.commission_rate = FloatLit(FALSE, <<11>>, -1)
    /\ \A c \in Callers : http[c].phase = "idle" /\ calls[c].pc = "idle"

(***************************************************************************)
(* The boundary layer.                                                     *)
(***************************************************************************)
Exchanges == {c \in Callers : http[c].phase # "idle"}

IsNumber(field) == field.json = "number"

\* The request constraints as the specification words them, on the values
\* as sent: both numbers, sales_amount >= 0, target_amount > 0, both < 1e12.
\* A target counts as positive when it is still positive at 2 decimals
\* (C13 is about the targets that are not).
RequestConstraints(body) ==
    /\ IsNumber(body.sales_amount)
    /\ IsNumber(body.target_amount)
    /\ FloatCmp(body.sales_amount.value, FloatZero) >= 0
    /\ FloatCmp(body.target_amount.value, FloatZero) > 0
    /\ FloatCmp(FloatRound(body.target_amount.value, 2), FloatZero) > 0
    /\ FloatCmp(body.sales_amount.value, MAX_AMOUNT) < 0
    /\ FloatCmp(body.target_amount.value, MAX_AMOUNT) < 0

\* The service has been or is being called for the exchange.
HandedToEngine(c) == http[c].request.valid

\* C12: the endpoint rejects with a validation error, without calling the
\* engine, every request with sales_amount < 0, target_amount <= 0, a missing
\* or non-numeric field, or an amount not strictly below 1e12; every other
\* request is accepted and handed to the engine.
BoundaryRejectsOutsideConstraints ==
    \A c \in Exchanges :
        /\ HandedToEngine(c) <=> RequestConstraints(http[c].body)
        /\ ~HandedToEngine(c) =>
               /\ http[c].phase = "responded"
               /\ calls[c].pc = "idle"
               /\ http[c].request.errors # <<>>

\* a and b, both >= 0, differ by at most half a cent.
WithinHalfCent(a, b) ==
    /\ DecCmp(a, ExactSum(b, HalfCent)) <= 0
    /\ DecCmp(b, ExactSum(a, HalfCent)) <= 0

\* C13: every (sales_amount, target_amount) the endpoint hands to the engine
\* has both values rounded to at most 2 fractional digits (each within half a
\* cent of the value sent) and still has sales_amount >= 0 and
\* target_amount > 0; a positive target that rounds to 0.00 is rejected at the
\* boundary and never reaches the engine.
HandedValuesAreNormalized ==
    \A c \in Exchanges :
        /\ HandedToEngine(c) =>
               LET sales == Amount(http[c].request.sales_amount)
                   target == Amount(http[c].request.target_amount)
               IN  /\ DecFractionDigits(sales) <= 2
                   /\ DecFractionDigits(target) <= 2
                   /\ ~sales.neg
                   /\ ~target.neg /\ ~DecIsZero(target)
                   /\ WithinHalfCent(sales, Amount(http[c].body.sales_amount.value))
                   /\ WithinHalfCent(target, Amount(http[c].body.target_amount.value))
        /\ calls[c].pc # "idle" =>
               /\ calls[c].sales_amount = http[c].request.sales_amount
               /\ calls[c].target_amount = http[c].request.target_amount
        /\ (/\ IsNumber(http[c].body.target_amount)
            /\ FloatCmp(FloatRound(http[c].body.target_amount.value, 2), FloatZero) <= 0)
               => ~HandedToEngine(c) /\ calls[c].pc = "idle"

\* A request sent as (100000.335, 0.005) is in the engine as (100000.34, 0.01).
NormalizedPairInEngine ==
    \E c \in Exchanges :
        /\ calls[c].pc = "validate"
        /\ http[c].body.sales_amount = JsonNumber(FloatLit(FALSE, <<1, 0, 335>>, -3))
        /\ http[c].body.target_amount = JsonNumber(FloatLit(FALSE, <<5>>, -3))
        /\ calls[c].sales_amount = FloatLit(FALSE, <<1000, 34>>, -2)
        /\ calls[c].target_amount = FloatLit(FALSE, <<1>>, -2)

Responded == {c \in Callers : http[c].phase = "responded"}

\* What the engine returns for the body's values at 2 decimals.
EngineResultFor(body) ==
    calculate_commission(engine.commission_rate, engine.eligibility_threshold,
                         FloatRound(body.sales_amount.value, 2),
                         FloatRound(body.target_amount.value, 2))

\* C14: every request that satisfies the request constraints is answered 200
\* with the commission, eligible and percentage_of_target of the engine's
\* result for the normalized inputs, also when sales exceed ten times the
\* target.
ValidRequestGetsEngineResult ==
    \A c \in Responded :
        RequestConstraints(http[c].body) =>
            /\ http[c].response.status_code = 200
            /\ ~EngineResultFor(http[c].body).raised
            /\ http[c].response.content =
                   [commission |-> EngineResultFor(http[c].body).value.commission,
                    eligible |-> EngineResultFor(http[c].body).value.eligible,
                    percentage_of_target |->
                        EngineResultFor(http[c].body).value.percentage_of_target]

ErrorResponses == {c \in Responded : http[c].response.status_code # HTTP_200_OK}

\* C15: every error response of the endpoint, on every failure path, is an
\* object whose top-level keys are error, message and details.
ErrorBodyShape ==
    \A c \in ErrorResponses :
        DOMAIN http[c].response.content = {"error", "message", "details"}

\* The error kinds of the service that stand for a validation or a
\* configuration failure.
ClientErrorKinds == {"ValidationError", "BusinessRuleViolation", "ConfigurationError"}

\* The exception, if any, that ended the handling of a validated request:
\* the one the service raised, or the one building the response raised.
HandlingFailure(c) ==
    IF calls[c].outcome.raised THEN calls[c].outcome
    ELSE CommissionResponse(Result(c).commission, Result(c).eligible,
                            Result(c).percentage_of_target)

\* C16: a request failing schema validation is answered 422, a service
\* ValidationError or configuration error 400, any other exception raised
\* while handling the request 500; no failure is answered 2xx and no
\* validation or configuration failure is answered 500.
StatusCodeMapping ==
    \A c \in Responded :
        LET status == http[c].response.status_code
        IN  IF ~http[c].request.valid THEN status = 422
            ELSE IF ~HandlingFailure(c).raised THEN status = 200
            ELSE IF /\ HandlingFailure(c).value.kind \in ClientErrorKinds
                    /\ "pydantic" \notin DOMAIN HandlingFailure(c).value
            THEN status = 400
            ELSE status = 500

\* The error object of a response, at the top level or under "detail".
ErrorObject(c) ==
    IF "detail" \in DOMAIN http[c].response.content
    THEN http[c].response.content.detail
    ELSE http[c].response.content

InternalErrors ==
    {c \in Responded : http[c].response.status_code = HTTP_500_INTERNAL_SERVER_ERROR}

\* C17: when handling a request raises anything other than a validation or
\* configuration error, the body carries only a fixed error kind and a fixed
\* message and is the same whichever internal exception occurred.
InternalErrorsAreOpaque ==
    \A c \in InternalErrors :
        /\ ErrorObject(c).error = "InternalServerError"
        /\ ErrorObject(c).message \in
               {"An unexpected error occurred",
                "An unexpected error occurred. Please contact support."}
        /\ ErrorObject(c).details \in {None, NoDetails}

(***************************************************************************)
(* The steps of a call and the configuration.                              *)
(***************************************************************************)

\* Neither the division (step 2) nor the commission computation (step 4)
\* of the call has run; the eligibility test (step 3) runs between them.
NothingComputed(c) ==
    /\ calls[c].percentage_of_target_precise = None
    /\ calls[c].commission = None

\* C18: the input checks complete before the division, the eligibility test
\* and the commission computation; the division never runs with
\* target_amount <= 0; after a validation failure no later step has run and
\* no CommissionResult is produced.
ValidationPrecedesComputation ==
    \A c \in Callers :
        /\ calls[c].pc = "validate" => NothingComputed(c)
        /\ (calls[c].pc \in {"percentage", "eligible", "commission", "display", "returned"}
                \/ ~NothingComputed(c)) =>
               /\ ~Amount(calls[c].sales_amount).neg
               /\ ~Amount(calls[c].target_amount).neg
               /\ ~DecIsZero(Amount(calls[c].target_amount))
        /\ (calls[c].pc = "raised" /\ Result(c).kind = "ValidationError") =>
               /\ NothingComputed(c)
               /\ calls[c].outcome.raised

\* A call with sales 100000.00 and target -120000.00 has failed validation
\* with no local computed.
NegativeTargetStoppedAtValidation ==
    \E c \in Callers :
        /\ calls[c].pc = "raised"
        /\ Result(c).kind = "ValidationError"
        /\ calls[c].target_amount = FloatOfCents(TRUE, BLit(<<1200, 0>>))
        /\ calls[c].sales_amount = FloatOfCents(FALSE, BLit(<<1000, 0>>))
        /\ NothingComputed(c)

\* C19: calculate_commission, whether it returns a result or fails with
\* ValidationError, leaves commission_rate and eligibility_threshold
\* unchanged; after any sequence of calls the configuration equals the values
\* given at construction.
ConfigurationUnchangedByCalls ==
    /\ [](engine.status = "ready" =>
              /\ engine.commission_rate = engine.given.commission_rate
              /\ engine.eligibility_threshold = engine.given.eligibility_threshold)
    /\ [][engine.status = "ready" => engine' = engine]_vars

\* A call has returned an eligible result on an engine built with rate 1.0
\* and threshold 0.57, and the engine still holds both.
ConfigurationIntactAfterReturn ==
    \E c \in Callers :
        /\ Returned(c)
        /\ Result(c).eligible
        /\ engine.given = Config(FloatOne, FloatLit(FALSE, <<57>>, -2))
        /\ engine.commission_rate = FloatOne
        /\ engine.eligibility_threshold = FloatLit(FALSE, <<57>>, -2)

\* C20: for every valid configuration and every valid input with at most 2
\* fractional digits, the returned commission has at most 2 fractional digits
\* and 0 <= commission <= sales_amount.
CommissionWithinSales ==
    \A c \in Callers :
        (/\ Returned(c)
         /\ DecFractionDigits(Amount(calls[c].sales_amount)) <= 2
         /\ DecFractionDigits(Amount(calls[c].target_amount)) <= 2) =>
            LET commission == Amount(Result(c).commission)
            IN  /\ ~commission.neg
                /\ DecCmp(commission, Amount(calls[c].sales_amount)) <= 0
                /\ DecFractionDigits(commission) <= 2

\* At rate 1.0 a call has returned a commission equal to its positive sales.
WholeSalesPaidAtRateOne ==
    \E c \in Callers :
        /\ Returned(c)
        /\ engine.commission_rate = FloatOne
        /\ Result(c).eligible
        /\ ~DecIsZero(Amount(calls[c].sales_amount))
        /\ Result(c).commission = calls[c].sales_amount

\* A call whose arguments violate both preconditions.
BothViolated(c) ==
    /\ calls[c].pc # "idle"
    /\ FloatCmp(calls[c].sales_amount, FloatZero) < 0
    /\ FloatCmp(calls[c].target_amount, FloatZero) <= 0

\* C21: when a call violates both preconditions (sales_amount < 0 and
\* target_amount <= 0), it fails with the sales_amount violation only: the
\* ValidationError's message is 'sales_amount cannot be negative' and its
\* details contain sales_amount and not target_amount.
SalesViolationReportedFirst ==
    \A c \in Callers :
        BothViolated(c) =>
            /\ calls[c].pc \in {"validate", "raised"}
            /\ calls[c].pc = "raised" =>
                   /\ calls[c].outcome.raised
                   /\ Result(c).kind = "ValidationError"
                   /\ Result(c).message = "sales_amount cannot be negative"
                   /\ DOMAIN Result(c).details = {"sales_amount"}
                   /\ Result(c).details.sales_amount = calls[c].sales_amount

\* A call with sales -1000.00 and target -120000.00 has failed with the
\* sales_amount message.
BothNegativeHasFailed ==
    \E c \in Callers :
        /\ calls[c].pc = "raised"
        /\ calls[c].sales_amount = FloatOfCents(TRUE, BLit(<<10, 0>>))
        /\ calls[c].target_amount = FloatOfCents(TRUE, BLit(<<1200, 0>>))
        /\ Result(c).message = "sales_amount cannot be negative"

\* A finished call whose arguments passed the input checks.
ValidCallDone(c) ==
    /\ Done(c)
    /\ FloatCmp(calls[c].sales_amount, FloatZero) >= 0
    /\ FloatCmp(calls[c].target_amount, FloatZero) > 0

\* The arguments with the target of call c and sales from 0 up to, and
\* below, its sales.
LowerSales(c) ==
    {a \in AllArgs : /\ a.target_amount = calls[c].target_amount
                     /\ FloatCmp(a.sales_amount, FloatZero) >= 0
                     /\ FloatCmp(a.sales_amount, calls[c].sales_amount) < 0}

\* Those of them with the largest sales: the step of the sales ladder just
\* below call c.  The two relations of the claim are transitive, so they
\* hold between any two rungs when they hold between every rung and the next.
NextLowerSales(c) ==
    {a \in LowerSales(c) :
        \A b \in LowerSales(c) : FloatCmp(b.sales_amount, a.sales_amount) <= 0}

\* The outcome, on the engine as configured, of a call with arguments a.
OutcomeOf(a) ==
    calculate_commission(engine.commission_rate, engine.eligibility_threshold,
                         a.sales_amount, a.target_amount)

\* lower and higher are outcomes of two calls with the same target that
\* returned, the sales of the first at most those of the second.
NotRevokedNorLowered(lower, higher) ==
    /\ lower.value.eligible => higher.value.eligible
    /\ FloatCmp(lower.value.commission, higher.value.commission) <= 0

WithinCeiling(x) == FloatCmp(x, MAX_AMOUNT) <= 0

\* The call with the lower sales returned and so did call c, with
\* eligibility kept and no lower commission.
ReturnedAndKept(lower, c) ==
    ~lower.raised => (Returned(c) /\ NotRevokedNorLowered(lower, calls[c].outcome))

\* C22 as stated: for a fixed configuration and a fixed target_amount > 0, if
\* 0 <= s1 <= s2 then the call with s2 has a result wherever the call with s1
\* has one, eligible(s1) implies eligible(s2) and commission(s1) <=
\* commission(s2).
MonotoneInSales ==
    \A c \in Callers :
        ValidCallDone(c) =>
            \A a \in NextLowerSales(c) : ReturnedAndKept(OutcomeOf(a), c)

\* Both calls returned, with eligibility kept and no lower commission.
BothReturnedAndKept(lower, c) ==
    ~lower.raised /\ NotRevokedNorLowered(lower, calls[c].outcome)

\* C22, amended: for a fixed configuration and a fixed target_amount > 0, if
\* 0 <= s1 <= s2 and the call with s2 returns a result, then the call with s1
\* returns one, eligible(s1) implies eligible(s2) and commission(s1) <=
\* commission(s2); the call with s2 returns a result when s2 and the target
\* are at most MAX_AMOUNT.
MonotoneInSalesWhereReturned ==
    \A c \in Callers :
        ValidCallDone(c) =>
            /\ (WithinCeiling(calls[c].sales_amount) /\ WithinCeiling(calls[c].target_amount))
                   => Returned(c)
            /\ Returned(c) =>
                   \A a \in NextLowerSales(c) : BothReturnedAndKept(OutcomeOf(a), c)

\* At threshold 0.80 the call with sales 96000.00 of 120000.00 has returned
\* eligible with a positive commission, one cent above a call that is not
\* eligible.
EligibleOneCentAboveIneligible ==
    \E c \in Callers :
        /\ Returned(c)
        /\ engine.eligibility_threshold = ELIGIBILITY_THRESHOLD
        /\ calls[c].sales_amount = FloatOfCents(FALSE, BLit(<<960, 0>>))
        /\ calls[c].target_amount = FloatOfCents(FALSE, BLit(<<1200, 0>>))
        /\ Result(c).eligible
        /\ FloatCmp(Result(c).commission, FloatZero) > 0
        /\ \E a \in NextLowerSales(c) :
               /\ a.sales_amount = FloatOfCents(FALSE, BLit(<<959, 9999>>))
               /\ ~OutcomeOf(a).value.eligible

\* A call of the constructed engine with sales of zero and a positive target.
ZeroSalesCall(c) ==
    /\ engine.status = "ready"
    /\ calls[c].pc # "idle"
    /\ FloatIsZero(calls[c].sales_amount)
    /\ FloatCmp(calls[c].target_amount, FloatZero) > 0

\* C23: for every engine that passed construction and every target_amount >
\* 0, calculate_commission(0, target_amount) returns eligible == false,
\* commission == 0.00 and percentage_of_target == 0.00.
ZeroSalesNeverEligible ==
    \A c \in Callers :
        ZeroSalesCall(c) =>
            /\ calls[c].pc # "raised"
            /\ calls[c].pc \in {"commission", "display", "returned"} => ~calls[c].eligible
            /\ calls[c].pc \in {"display", "returned"} => FloatIsZero(calls[c].commission)
            /\ Returned(c) =>
                   Result(c) = CommissionResult(FloatZero, FALSE, FloatZero)

\* At the smallest threshold offered, 0.07, a call with sales 0 and target
\* 0.01 has returned.
ZeroSalesReturnedAtLowThreshold ==
    \E c \in Callers :
        /\ ZeroSalesCall(c)
        /\ Returned(c)
        /\ engine.eligibility_threshold = FloatLit(FALSE, <<7>>, -2)
        /\ calls[c].target_amount = FloatOfCents(FALSE, BLit(<<1>>))
        /\ ~Result(c).eligible

\* Every request that passed the schema passes the engine's input checks:
\* its call does not fail with ValidationError and it is not answered 400.
SchemaImpliesEngineChecks ==
    \A c \in Exchanges :
        HandedToEngine(c) =>
            /\ validate_inputs(http[c].request.sales_amount,
                               http[c].request.target_amount) = None
            /\ (Done(c) /\ calls[c].outcome.raised) => Result(c).kind # "ValidationError"
            /\ c \in Responded => http[c].response.status_code # HTTP_400_BAD_REQUEST

\* C24: every request that passes the request schema's checks also passes
\* the engine's input validation, so through the endpoint the engine never
\* raises ValidationError and the 400 branch is never taken; a request with
\* invalid amounts is always answered by the schema layer, with 422.
EngineValidationUnreachable ==
    /\ SchemaImpliesEngineChecks
    /\ \A c \in Exchanges :
           ~HandedToEngine(c) =>
               /\ c \in Responded
               /\ calls[c].pc = "idle"
               /\ http[c].response.status_code = HTTP_422_UNPROCESSABLE_ENTITY

====
